---- MODULE Spec2Model ----
(***************************************************************************)
(* Model of critter/blocks/priors.py: the pydantic model Prior, its        *)
(* family specializations and the properties rendering a prior as BEAST    *)
(* XML text.  A state is the object last constructed (or None), the last   *)
(* call made and what that call returned or raised.  Text is modelled by   *)
(* TLA+ strings, built with \o exactly as the f-strings build it.          *)
(***************************************************************************)
EXTENDS Integers, Sequences, FiniteSets, TLC

VARIABLES prior, call, result

vars == <<prior, call, result>>

(* ------------------------------------------------------------------ *)
(* Bounds of the explored inputs                                        *)
(* ------------------------------------------------------------------ *)

\* longest distribution list passed to the constructor
MaxDist == 2

\* longest initial list passed to the constructor
MaxInit == 2

\* longest intervals list passed to the constructor
MaxIntervals == 2

(* ------------------------------------------------------------------ *)
(* Python values                                                        *)
(* ------------------------------------------------------------------ *)

\* Python's None, and the marker of a keyword argument left out of a call.
None == [ty |-> "NoneType"]

NoArg == [ty |-> "omitted"]

\* A float is held in tenths (1.5 is PyFloat(15)), which is exact for the
\* one-decimal literals explored; an int is held as itself.
PyFloat(t) == [ty |-> "float", tenths |-> t]

PyInt(n) == [ty |-> "int", n |-> n]

Str(s) == [ty |-> "str", s |-> s]

PyBool(b) == [ty |-> "bool", b |-> b]

PyList(xs) == [ty |-> "list", items |-> xs]

\* math.inf and -math.inf, the defaults of upper and lower
PosInf == [ty |-> "float", inf |-> 1]

NegInf == [ty |-> "float", inf |-> -1]

Digits(n) == ToString(n)

\* str(v) for the numbers explored: str(1.5) = "1.5", str(0.0) = "0.0",
\* str(2) = "2".
PyStr(v) ==
    IF v.ty = "int" THEN Digits(v.n)
    ELSE IF v.tenths < 0
         THEN "-" \o Digits((-v.tenths) \div 10) \o "." \o Digits((-v.tenths) % 10)
         ELSE Digits(v.tenths \div 10) \o "." \o Digits(v.tenths % 10)

\* v != 0 in Python: numeric comparison, so 0.0 and 0 both equal 0.
NotEqualZero(v) ==
    IF v.ty = "int" THEN v.n # 0 ELSE v.tenths # 0

\* sep.join(parts) for a sequence of strings
RECURSIVE Join(_, _)
Join(sep, parts) ==
    IF Len(parts) = 0 THEN ""
    ELSE IF Len(parts) = 1 THEN parts[1]
    ELSE parts[1] \o sep \o Join(sep, Tail(parts))

\* s.startswith(p)
StartsWith(s, p) ==
    /\ Len(s) >= Len(p)
    /\ SubSeq(s, 1, Len(p)) = p

\* s.startswith((p1, p2, ...)) with a tuple of prefixes
StartsWithAny(s, ps) == \E p \in ps : StartsWith(s, p)

\* the sequences over S of length at most n
SeqUpTo(S, n) == UNION {[1..k -> S] : k \in 0..n}

(* ------------------------------------------------------------------ *)
(* Outcomes of a call                                                   *)
(* ------------------------------------------------------------------ *)

Return(v) == [kind |-> "return", value |-> v]

Raise(e) == [kind |-> "raise", exc |-> e]

(* ------------------------------------------------------------------ *)
(* The classes                                                          *)
(* ------------------------------------------------------------------ *)

Classes ==
    {"Prior", "Origin", "ReproductiveNumber", "SamplingProportion",
     "BecomeUninfectiousRate", "Rho", "RateMatrix", "SamplingProportionMTBD",
     "PopulationSize", "GroupSize", "ClockRate", "UCRE", "UCRLMean", "UCRLSD"}

\* get_uuid(short=True), evaluated once when the class body of Prior runs
get_uuid == "a1b2c3d4"

\* the class attribute id: the default of the field id
DefaultId(cls) ==
    CASE cls = "Prior" -> "Prior." \o get_uuid
      [] cls = "Origin" -> "origin"
      [] cls = "ReproductiveNumber" -> "reproductiveNumber"
      [] cls = "SamplingProportion" -> "samplingProportion"
      [] cls = "BecomeUninfectiousRate" -> "becomeUninfectiousRate"
      [] cls = "Rho" -> "rho"
      [] cls = "RateMatrix" -> "rateMatrix"
      [] cls = "SamplingProportionMTBD" -> "samplingProportion"
      [] cls = "PopulationSize" -> "bPopSizes"
      [] cls = "GroupSize" -> "bGroupSizes"
      [] cls = "ClockRate" -> "clockRate"
      [] cls = "UCRE" -> "ucreMean"
      [] cls = "UCRLMean" -> "ucrlMean"
      [] cls = "UCRLSD" -> "ucrlSD"

RealParameterSpec == "parameter.RealParameter"

IntegerParameterSpec == "parameter.IntegerParameter"

\* the class attribute param_spec: a field default, which GroupSize replaces
DefaultParamSpec(cls) ==
    IF cls = "GroupSize" THEN IntegerParameterSpec ELSE RealParameterSpec

\* The value of one field: the keyword argument when given, else the default.
Field(arg, default) == IF arg = NoArg THEN default ELSE arg

\* The field values pydantic hands to the root validator: every keyword
\* argument given, and the class's default for each one left out.
FieldValues(cls, kw) ==
    [id           |-> Field(kw.id, Str(DefaultId(cls))).s,
     distribution |-> kw.distribution.items,
     initial      |-> kw.initial.items,
     lower        |-> Field(kw.lower, NegInf),
     upper        |-> Field(kw.upper, PosInf),
     dimension    |-> Field(kw.dimension, PyInt(1)).n,
     sliced       |-> Field(kw.sliced, PyBool(FALSE)).b,
     intervals    |-> Field(kw.intervals, PyList(<<>>)).items,
     param_spec   |-> Field(kw.param_spec, Str(DefaultParamSpec(cls))).s]

SlicedPrefixes ==
    {"origin", "rho", "samplingProportion", "reproductiveNumber", "becomeUninfectious"}

\* the validator with 'origin' missing from the tuple of prefixes
validate_sliced_id_no_origin(fields) ==
    IF fields.sliced /\ ~StartsWithAny(fields.id, SlicedPrefixes \ {"origin"})
    THEN Raise("ValidationError")
    ELSE Return(fields)

\* Prior.validate_sliced_id: the root validator.  The raise statement names
\* ValidationError; whichever exception pydantic makes of it, the call
\* raises and builds no object.
validate_sliced_id(fields) ==
    IF fields.sliced /\ ~StartsWithAny(fields.id, SlicedPrefixes)
    THEN Raise("ValidationError")
    ELSE Return(fields)

\* cls(**kw): the object built, or the error of the validator
New(cls, kw) ==
    LET v == validate_sliced_id(FieldValues(cls, kw))
    IN  IF v.kind = "raise" THEN v
        ELSE Return([cls |-> cls] @@ v.value)

(* ------------------------------------------------------------------ *)
(* Rendering                                                            *)
(* ------------------------------------------------------------------ *)

\* (str(i) for i in xs)
StrEach(xs) == [j \in 1..Len(xs) |-> PyStr(xs[j])]

\* the loop's text with the target numbered from 0
PriorSlice_zero_based(self, i) ==
    "<prior id=\"" \o self.id \o "Slice" \o Digits(i + 1) \o "\" name=\"distribution\" "
    \o "x=\"@" \o self.id \o Digits(i) \o "\">" \o self.distribution[i + 1].xml
    \o "</prior>"

\* One pass of the loop in Prior.xml, for 0-based index i: the text added
\* to sliced_priors.
PriorSlice(self, i) ==
    "<prior id=\"" \o self.id \o "Slice" \o Digits(i + 1) \o "\" name=\"distribution\" "
    \o "x=\"@" \o self.id \o Digits(i + 1) \o "\">" \o self.distribution[i + 1].xml
    \o "</prior>"

\* for i, distribution in enumerate(self.distribution): sliced_priors += ...
RECURSIVE SlicedPriors(_, _, _)
SlicedPriors(self, i, sliced_priors) ==
    IF i >= Len(self.distribution) THEN sliced_priors
    ELSE SlicedPriors(self, i + 1, sliced_priors \o PriorSlice(self, i))

\* Prior.xml
Prior_xml(self) ==
    IF ~self.sliced
    THEN IF Len(self.distribution) = 0 THEN Raise("IndexError")
         ELSE Return("<prior id=\"" \o self.id \o "Prior\" name=\"distribution\" "
                     \o "x=\"@" \o self.id \o "\">" \o self.distribution[1].xml
                     \o "</prior>")
    ELSE Return(SlicedPriors(self, 0, ""))

\* the entry with the test turned round: 'true' if v == 0 else 'false'
IncludeEntry_inverted(v) == IF NotEqualZero(v) THEN "false" ELSE "true"

\* 'true' if v != 0 else 'false'
IncludeEntry(v) == IF NotEqualZero(v) THEN "true" ELSE "false"

\* SamplingProportionMTBD.get_include_string
get_include_string(self) ==
    LET incl == [j \in 1..Len(self.initial) |-> IncludeEntry(self.initial[j])]
    IN  Join(" ", incl)

\* SamplingProportionMTBD.xml
SamplingProportionMTBD_xml(self) ==
    IF Len(self.distribution) = 0 THEN Raise("IndexError")
    ELSE Return("<distribution id=\"" \o self.id \o "Prior\" "
                \o "spec=\"multitypetree.distributions.ExcludablePrior\" x=\"@"
                \o self.id \o "\">"
                \o "<xInclude id=\"samplingProportionXInclude\" "
                \o "spec=\"parameter.BooleanParameter\" dimension=\""
                \o Digits(self.dimension) \o "\">"
                \o get_include_string(self) \o "</xInclude>"
                \o self.distribution[1].xml \o "</distribution>")

\* self.xml: the property of the object's class
xml(self) ==
    IF self.cls = "SamplingProportionMTBD" THEN SamplingProportionMTBD_xml(self)
    ELSE Prior_xml(self)

\* The keyword arguments xml_param hands to RealParameter; the text that
\* RealParameter makes of them is its own.
RealParameter(id, name, value, spec, dimension, lower, upper) ==
    [id |-> id, name |-> name, value |-> value, spec |-> spec,
     dimension |-> dimension, lower |-> lower, upper |-> upper]

\* the value joined whatever the length of initial
InitialValue_always_joined(initial) == Str(Join(" ", StrEach(initial)))

\* " ".join(str(i) for i in self.initial) if len(self.initial) > 1
\* else self.initial[0], for a list that has an element
InitialValue(initial) ==
    IF Len(initial) > 1 THEN Str(Join(" ", StrEach(initial))) ELSE initial[1]

\* Prior.xml_param
xml_param(self) ==
    IF Len(self.initial) = 0 THEN Raise("IndexError")
    ELSE Return(RealParameter(self.id, "stateNode", InitialValue(self.initial),
                              self.param_spec, self.dimension, self.lower, self.upper))

\* Prior.xml_logger
xml_logger(self) == Return("<log idref=\"" \o self.id \o "\"/>")

\* the loop's text with the index numbered from 1, like the identifier
SliceFunction_index_from_one(self, i) ==
    "<function spec=\"beast.core.util.Slice\" id=\"" \o self.id \o Digits(i + 1) \o "\" "
    \o "arg=\"@" \o self.id \o "\" index=\"" \o Digits(i + 1) \o "\" count=\"1\"/>\n"

\* One pass of the loop in Prior.xml_slice_function, for 0-based index i
SliceFunction(self, i) ==
    "<function spec=\"beast.core.util.Slice\" id=\"" \o self.id \o Digits(i + 1) \o "\" "
    \o "arg=\"@" \o self.id \o "\" index=\"" \o Digits(i) \o "\" count=\"1\"/>\n"

RECURSIVE SliceFunctions(_, _, _)
SliceFunctions(self, i, acc) ==
    IF i >= Len(self.distribution) THEN acc
    ELSE SliceFunctions(self, i + 1, acc \o SliceFunction(self, i))

\* Prior.xml_slice_function
xml_slice_function(self) ==
    IF ~self.sliced THEN Return("") ELSE Return(SliceFunctions(self, 0, ""))

\* the chain without its branch for 'rho'
RateChangeTimes_no_rho(id) ==
    IF StartsWith(id, "samplingProportion") THEN Str("samplingRateChangeTimes")
    ELSE IF StartsWith(id, "reproductiveNumber") THEN Str("birthRateChangeTimes")
    ELSE IF StartsWith(id, "becomeUninfectious") THEN Str("deathRateChangeTimes")
    ELSE None

\* The if/elif chain of Prior.xml_slice_rate_change_times: the tag for an
\* id, or None where the chain reaches its else.
RateChangeTimes(id) ==
    IF StartsWith(id, "samplingProportion") THEN Str("samplingRateChangeTimes")
    ELSE IF StartsWith(id, "rho") THEN Str("samplingRateChangeTimes")
    ELSE IF StartsWith(id, "reproductiveNumber") THEN Str("birthRateChangeTimes")
    ELSE IF StartsWith(id, "becomeUninfectious") THEN Str("deathRateChangeTimes")
    ELSE None

\* the property without its test of sliced
xml_slice_rate_change_times_unguarded(self) ==
    LET intervals == Join(" ", StrEach(self.intervals))
        rate_change_times == RateChangeTimes(self.id)
    IN  IF rate_change_times = None THEN Raise("CritterError")
        ELSE Return("<" \o rate_change_times.s
                    \o " spec=\"beast.core.parameter.RealParameter\" value=\""
                    \o intervals \o "\"/>")

\* Prior.xml_slice_rate_change_times
xml_slice_rate_change_times(self) ==
    IF ~self.sliced THEN Return("")
    ELSE LET intervals == Join(" ", StrEach(self.intervals))
             rate_change_times == RateChangeTimes(self.id)
         IN  IF rate_change_times = None THEN Raise("CritterError")
             ELSE Return("<" \o rate_change_times.s
                         \o " spec=\"beast.core.parameter.RealParameter\" value=\""
                         \o intervals \o "\"/>")

\* One pass of the loop in Prior.xml_slice_logger, for 0-based index i
SliceLogger(self, i) == "<log idref=\"" \o self.id \o Digits(i + 1) \o "\"/>\n"

RECURSIVE SliceLoggers(_, _, _)
SliceLoggers(self, i, loggers) ==
    IF i >= Len(self.distribution) THEN loggers
    ELSE SliceLoggers(self, i + 1, loggers \o SliceLogger(self, i))

\* Prior.xml_slice_logger
xml_slice_logger(self) ==
    IF ~self.sliced THEN Return("") ELSE Return(SliceLoggers(self, 0, ""))

\* str(self.initial): the list's own text, "[0.0, 1.5]"
ListStr(xs) == "[" \o Join(", ", StrEach(xs)) \o "]"

\* GroupSize.state_node_group_size
state_node_group_size(self) ==
    Return("<stateNode id=\"bGroupSizes\" spec=\"parameter.IntegerParameter\" "
           \o "dimension=\"" \o Digits(self.dimension) \o "\">" \o ListStr(self.initial)
           \o "</stateNode>")

(* ------------------------------------------------------------------ *)
(* The explored inputs                                                  *)
(* ------------------------------------------------------------------ *)

\* Distribution objects, each with the text its own xml property gives
Distributions == {[xml |-> "<Exponential/>"], [xml |-> "<Beta/>"]}

InitialValues == {PyFloat(0), PyFloat(15)}

\* The k-th interval boundary explored: 0.5, 1, 1.5, 2, ... (floats and
\* ints in turn); an intervals list is the first few of them.
IntervalTime(k) == IF k % 2 = 1 THEN PyFloat(5 * k) ELSE PyInt(k \div 2)

IntervalLists == {[j \in 1..n |-> IntervalTime(j)] : n \in 0..MaxIntervals}

IdArgs == {NoArg, Str("rhoB")}

ParamSpecArgs == {NoArg, Str(RealParameterSpec)}

SlicedArgs == {NoArg, PyBool(TRUE)}

\* dimension, lower and upper: all three left out, or all three given
ShapeArgs ==
    {[dimension |-> NoArg, lower |-> NoArg, upper |-> NoArg],
     [dimension |-> PyInt(2), lower |-> PyFloat(0), upper |-> PyFloat(10)]}

KeywordArgs ==
    {[id |-> id, distribution |-> PyList(d), initial |-> PyList(ini),
      lower |-> sh.lower, upper |-> sh.upper, dimension |-> sh.dimension, sliced |-> sl,
      intervals |-> PyList(iv), param_spec |-> ps] :
        id \in IdArgs, d \in SeqUpTo(Distributions, MaxDist),
        ini \in SeqUpTo(InitialValues, MaxInit), sh \in ShapeArgs, sl \in SlicedArgs,
        iv \in IntervalLists, ps \in ParamSpecArgs}

(* ------------------------------------------------------------------ *)
(* The state machine                                                    *)
(* ------------------------------------------------------------------ *)

Init ==
    /\ prior = None
    /\ call = [op |-> "import"]
    /\ result = None

\* prior = cls(**kw): one object is followed from its construction on
Construct(cls, kw) ==
    LET r == New(cls, kw)
    IN  /\ call.op = "import"
        /\ prior' = IF r.kind = "return" THEN r.value ELSE None
        /\ call' = [op |-> "__init__", cls |-> cls, kw |-> kw]
        /\ result' = IF r.kind = "return" THEN Return(None) ELSE r

\* reading a property of the object, or calling a method of it
Read(op, r) ==
    /\ prior # None
    /\ call' = [op |-> op]
    /\ result' = r
    /\ UNCHANGED prior

Xml == Read("xml", xml(prior))

XmlParam == Read("xml_param", xml_param(prior))

XmlLogger == Read("xml_logger", xml_logger(prior))

XmlSliceFunction == Read("xml_slice_function", xml_slice_function(prior))

XmlSliceRateChangeTimes ==
    Read("xml_slice_rate_change_times", xml_slice_rate_change_times(prior))

XmlSliceLogger == Read("xml_slice_logger", xml_slice_logger(prior))

GetIncludeString ==
    /\ prior # None
    /\ prior.cls = "SamplingProportionMTBD"
    /\ Read("get_include_string", Return(get_include_string(prior)))

StateNodeGroupSize ==
    /\ prior # None
    /\ prior.cls = "GroupSize"
    /\ Read("state_node_group_size", state_node_group_size(prior))

Next ==
    \/ /\ call.op = "import"
       /\ \E cls \in Classes, kw \in KeywordArgs : Construct(cls, kw)
    \/ Xml
    \/ XmlParam
    \/ XmlLogger
    \/ XmlSliceFunction
    \/ XmlSliceRateChangeTimes
    \/ XmlSliceLogger
    \/ GetIncludeString
    \/ StateNodeGroupSize

Spec == Init /\ [][Next]_vars

(* ------------------------------------------------------------------ *)
(* Reading rendered text back                                           *)
(* ------------------------------------------------------------------ *)

\* the positions at which pat occurs in s
Occurrences(s, pat) ==
    {p \in 1..(Len(s) - Len(pat) + 1) : SubSeq(s, p, p + Len(pat) - 1) = pat}

Min(S) == CHOOSE x \in S : \A y \in S : x <= y

\* a finite set of integers as an increasing sequence
RECURSIVE Ascending(_)
Ascending(S) ==
    IF S = {} THEN <<>> ELSE <<Min(S)>> \o Ascending(S \ {Min(S)})

\* the text from position p of s up to the next occurrence of stop
UpTo(s, p, stop) ==
    LET ends == {q \in Occurrences(s, stop) : q >= p}
    IN  IF ends = {} THEN SubSeq(s, p, Len(s)) ELSE SubSeq(s, p, Min(ends) - 1)

\* For each occurrence of key in s, in order, the text that follows it up
\* to the closing quote: with key = " x=\"" the values of the x attributes.
AttrValues(s, key) ==
    LET at == Ascending(Occurrences(s, key))
    IN  [j \in 1..Len(at) |-> UpTo(s, at[j] + Len(key), "\"")]

\* The entries of a space-separated text; the empty text has none.
Entries(s) ==
    IF s = "" THEN <<>>
    ELSE LET sp == Ascending(Occurrences(s, " "))
             from(j) == IF j = 1 THEN 1 ELSE sp[j - 1] + 1
             to(j) == IF j = Len(sp) + 1 THEN Len(s) ELSE sp[j] - 1
         IN  [j \in 1..(Len(sp) + 1) |-> SubSeq(s, from(j), to(j))]

\* the object is of a class that renders its prior with Prior.xml
BaseRenderer == prior.cls # "SamplingProportionMTBD"

(* ------------------------------------------------------------------ *)
(* Claims                                                               *)
(* ------------------------------------------------------------------ *)

\* the id a construction call asks for: the argument, else the class's
CalledId == IF call.kw.id = NoArg THEN DefaultId(call.cls) ELSE call.kw.id.s

CalledSliced == call.kw.sliced = PyBool(TRUE)

Whitelisted(id) ==
    \/ StartsWith(id, "origin")
    \/ StartsWith(id, "rho")
    \/ StartsWith(id, "samplingProportion")
    \/ StartsWith(id, "reproductiveNumber")
    \/ StartsWith(id, "becomeUninfectious")

\* C1: a construction with sliced = true and an id that starts with none
\* of origin, rho, samplingProportion, reproductiveNumber,
\* becomeUninfectious raises and produces no object; every other
\* construction produces the object.
C1_SlicedIdRule ==
    call.op = "__init__" =>
        IF CalledSliced /\ ~Whitelisted(CalledId)
        THEN result.kind = "raise" /\ prior = None
        ELSE result.kind = "return" /\ prior # None /\ prior.id = CalledId

\* a sliced construction of a class whose id is not whitelisted has failed
C1_Witness ==
    /\ call.op = "__init__"
    /\ CalledSliced
    /\ CalledId = "clockRate"
    /\ result.kind = "raise"

\* the k-th fragment claimed of a sliced prior
C2_Fragment(k) ==
    "<prior id=\"" \o prior.id \o "Slice" \o ToString(k)
    \o "\" name=\"distribution\" x=\"@" \o prior.id \o ToString(k) \o "\">"
    \o prior.distribution[k].xml \o "</prior>"

\* C2: xml of a sliced prior rendered by Prior.xml, with n distributions,
\* is n fragments with nothing between them, the k-th with identifier
\* <id>Slice<k>, target @<id><k> and the text of distribution k.
C2_SlicedFragments ==
    (call.op = "xml" /\ prior.sliced /\ BaseRenderer) =>
        LET n == Len(prior.distribution)
        IN  /\ result.kind = "return"
            /\ Cardinality(Occurrences(result.value, "<prior ")) = n
            /\ Cardinality(Occurrences(result.value, "</prior>")) = n
            /\ AttrValues(result.value, "<prior id=\"")
                 = [k \in 1..n |-> prior.id \o "Slice" \o ToString(k)]
            /\ AttrValues(result.value, " x=\"")
                 = [k \in 1..n |-> "@" \o prior.id \o ToString(k)]
            /\ result.value = Join("", [k \in 1..n |-> C2_Fragment(k)])

\* a sliced prior with two different distributions has been rendered
C2_Witness ==
    /\ call.op = "xml"
    /\ prior.sliced
    /\ BaseRenderer
    /\ Len(prior.distribution) = 2
    /\ prior.distribution[1] # prior.distribution[2]
    /\ result.kind = "return"

\* the prior declarations in a text: the elements opened by <prior id= or
\* by <distribution id=
Declarations(s) ==
    Occurrences(s, "<prior id=") \cup Occurrences(s, "<distribution id=")

\* C3: xml of any sliced prior that has a distribution, of whatever class,
\* holds as many prior declarations as the prior has distributions.
C3_SlicedFragmentCount ==
    (call.op = "xml" /\ prior.sliced /\ Len(prior.distribution) >= 1) =>
        /\ result.kind = "return"
        /\ Cardinality(Declarations(result.value)) = Len(prior.distribution)

\* the tag claimed for an id, "" where none is claimed
C4_Tag(id) ==
    IF StartsWith(id, "rho") \/ StartsWith(id, "samplingProportion")
    THEN "samplingRateChangeTimes"
    ELSE IF StartsWith(id, "reproductiveNumber") THEN "birthRateChangeTimes"
    ELSE IF StartsWith(id, "becomeUninfectious") THEN "deathRateChangeTimes"
    ELSE ""

\* C4: xml_slice_rate_change_times of a sliced prior returns one fragment,
\* with the tag of the id's prefix and the space-joined intervals as its
\* value, or raises CritterError when the id has none of the four prefixes.
C4_RateChangeTimes ==
    (call.op = "xml_slice_rate_change_times" /\ prior.sliced) =>
        IF C4_Tag(prior.id) = ""
        THEN result = Raise("CritterError")
        ELSE /\ result.kind = "return"
             /\ Cardinality(Occurrences(result.value, "<")) = 1
             /\ StartsWith(result.value, "<" \o C4_Tag(prior.id) \o " ")
             /\ SubSeq(result.value, Len(result.value) - 2, Len(result.value)) = "\"/>"
             /\ LET value == AttrValues(result.value, " value=\"")
                IN  /\ Len(value) = 1
                    /\ Entries(value[1]) = [j \in 1..Len(prior.intervals) |->
                                              PyStr(prior.intervals[j])]

\* the rate change times of a sliced origin prior have been asked for
C4_Witness ==
    /\ call.op = "xml_slice_rate_change_times"
    /\ prior.sliced
    /\ prior.id = "origin"
    /\ Len(prior.intervals) = 2
    /\ result.kind = "raise"

\* C5: a construction with an empty distribution list raises, so that every
\* object has a distribution and xml of an unsliced prior returns.
C5_EmptyDistributionRejected ==
    /\ (call.op = "__init__" /\ Len(call.kw.distribution.items) = 0)
           => result.kind = "raise"
    /\ prior # None => Len(prior.distribution) >= 1
    /\ (call.op = "xml" /\ ~prior.sliced) => result.kind = "return"

\* C6: every GroupSize object has param_spec parameter.IntegerParameter,
\* and xml_param of it hands that spec to RealParameter.
C6_GroupSizeParamSpec ==
    (prior # None /\ prior.cls = "GroupSize") =>
        /\ prior.param_spec = "parameter.IntegerParameter"
        /\ (call.op = "xml_param" /\ result.kind = "return")
               => result.value.spec = "parameter.IntegerParameter"

C7_IsZero(v) == v = PyFloat(0) \/ v = PyInt(0)

\* C7: get_include_string has one entry for each element of initial, in
\* order and separated by single spaces: false where the element is zero,
\* true elsewhere.
C7_IncludeMask ==
    call.op = "get_include_string" =>
        /\ result.kind = "return"
        /\ Entries(result.value) = [j \in 1..Len(prior.initial) |->
                                      IF C7_IsZero(prior.initial[j]) THEN "false"
                                      ELSE "true"]

\* the mask of initial = [0.0, 1.5] has been rendered
C7_Witness ==
    /\ call.op = "get_include_string"
    /\ prior.initial = <<PyFloat(0), PyFloat(15)>>
    /\ result = Return("false true")

\* C8: xml_param hands RealParameter the id, the name stateNode, the
\* object's param_spec, dimension, lower and upper, and as value the lone
\* element of initial, or for a longer initial its elements' texts joined
\* by single spaces in order.
C8_ParamArguments ==
    (call.op = "xml_param" /\ Len(prior.initial) >= 1) =>
        /\ result.kind = "return"
        /\ result.value.id = prior.id
        /\ result.value.name = "stateNode"
        /\ result.value.spec = prior.param_spec
        /\ result.value.dimension = prior.dimension
        /\ result.value.lower = prior.lower
        /\ result.value.upper = prior.upper
        /\ IF Len(prior.initial) > 1
           THEN /\ result.value.value.ty = "str"
                /\ Entries(result.value.value.s)
                     = [j \in 1..Len(prior.initial) |-> PyStr(prior.initial[j])]
           ELSE result.value.value = prior.initial[1]

\* xml_param has been read of a prior with two different initial values
\* and bounds of its own
C8_Witness ==
    /\ call.op = "xml_param"
    /\ prior.initial = <<PyFloat(15), PyFloat(0)>>
    /\ prior.lower = PyFloat(0)
    /\ result.kind = "return"
    /\ result.value.value = Str("1.5 0.0")

C9_SliceReaders ==
    {"xml_slice_function", "xml_slice_rate_change_times", "xml_slice_logger"}

\* C9: each of xml_slice_function, xml_slice_rate_change_times and
\* xml_slice_logger of an unsliced prior returns the empty text.
C9_UnslicedEmpty ==
    (call.op \in C9_SliceReaders /\ ~prior.sliced) => result = Return("")

\* the rate change times of an unsliced clockRate prior with intervals
\* have been asked for
C9_Witness ==
    /\ call.op = "xml_slice_rate_change_times"
    /\ ~prior.sliced
    /\ prior.id = "clockRate"
    /\ Len(prior.intervals) = 2
    /\ result.kind = "return"

C10_NoRepeats(xs) == \A j, k \in 1..Len(xs) : xs[j] = xs[k] => j = k

\* C10: for a sliced prior rendered by Prior.xml, with n distributions, the
\* targets of xml are @<id>1 .. @<id>n, the identifiers xml_slice_function
\* declares are <id>1 .. <id>n, each once, the k-th over @<id> with index
\* k - 1 and count 1, and xml_slice_logger refers to <id>1 .. <id>n.
C10_CrossReferences ==
    (prior # None /\ prior.sliced /\ BaseRenderer /\ result.kind = "return") =>
        LET n == Len(prior.distribution)
            names == [k \in 1..n |-> prior.id \o ToString(k)]
        IN  /\ call.op = "xml" =>
                  AttrValues(result.value, " x=\"") = [k \in 1..n |-> "@" \o names[k]]
            /\ call.op = "xml_slice_function" =>
                  /\ AttrValues(result.value, " id=\"") = names
                  /\ C10_NoRepeats(AttrValues(result.value, " id=\""))
                  /\ AttrValues(result.value, " arg=\"") = [k \in 1..n |-> "@" \o prior.id]
                  /\ AttrValues(result.value, " index=\"") = [k \in 1..n |-> ToString(k - 1)]
                  /\ AttrValues(result.value, " count=\"") = [k \in 1..n |-> "1"]
                  /\ Cardinality(Occurrences(result.value, "<function ")) = n
            /\ call.op = "xml_slice_logger" =>
                  /\ AttrValues(result.value, " idref=\"") = names
                  /\ Cardinality(Occurrences(result.value, "<log ")) = n

\* the slice functions of a sliced prior with two distributions have been
\* rendered
C10_Witness ==
    /\ call.op = "xml_slice_function"
    /\ prior.sliced
    /\ BaseRenderer
    /\ Len(prior.distribution) = 2
    /\ result.kind = "return"
    /\ Len(AttrValues(result.value, " id=\"")) = 2

====
